---- MODULE Spec2Model ----
(***************************************************************************)
(* gpu-ninja/operator-utils: the updater package (CreateOrUpdateFromTemplate, *)
(* CreateOrUpdate, UpdateStatus, HashObject/GetHash/StoreHash) run by        *)
(* several callers against one key of a store with version-token optimistic *)
(* concurrency.  Every action is one blocking round trip to the store,      *)
(* together with the local code that runs before the next round trip.       *)
(***************************************************************************)
EXTENDS Integers, Sequences, FiniteSets, TLC

\* ------------------------------------------------------------------ bounds
\* template contents / callback values are 1..MaxSpec
MaxSpec == 2
\* invocations made by all callers together
MaxCalls == 2
\* disturbances from outside: store calls that fail with an error of no
\* distinguished kind, and writes to the key by clients outside this package
MaxDisturb == 1

Procs == {"p1", "p2"}

\* ------------------------------------------------------------- the objects
\* the one key the callers reconcile (name and namespace taken together)
Key == "test"

\* "not found" / nil
None == [name |-> "<none>"]

\* a zero-valued object: no name, no content, nil annotations, no version
Blank == [name |-> "", spec |-> 0, ann |-> <<>>, rv |-> 0, status |-> 0]

\* the desired-state templates the callers pass in
Templates == {[Blank EXCEPT !.name = Key, !.spec = s] : s \in 1..MaxSpec}

\* MutateFunc values: nil, a closure that sets a field, a closure that fails
NilFunc == [nil |-> TRUE, val |-> 0, fails |-> FALSE]
FailingFunc == [nil |-> FALSE, val |-> 0, fails |-> TRUE]
SettingFunc == [nil |-> FALSE, val |-> 1, fails |-> FALSE]
MutateFuncs == {NilFunc, FailingFunc, SettingFunc}

\* ------------------------------------------------------------ hash.go
\* fnv.New32a(): offset basis 0x811C9DC5 and prime 0x01000193, the 32-bit
\* state kept as two 16-bit halves <<hi, lo>>
FnvOffsetHi == 33052
FnvOffsetLo == 40389
FnvPrimeLo == 403

RECURSIVE XorBits(_, _, _)
XorBits(a, b, n) ==
    IF n = 0 THEN 0
    ELSE (((a % 2) + (b % 2)) % 2) + 2 * XorBits(a \div 2, b \div 2, n - 1)

\* one byte of FNV-1a: xor into the low byte, multiply by 2^24 + 0x193 mod 2^32
FnvStep(h, b) ==
    LET lo1 == (h[2] \div 256) * 256 + XorBits(h[2] % 256, b, 8)
        p   == lo1 * FnvPrimeLo
    IN  << (h[1] * FnvPrimeLo + (p \div 65536) + (lo1 % 256) * 256) % 65536,
           p % 65536 >>

RECURSIVE Fnv32a(_, _)
Fnv32a(h, s) == IF s = <<>> THEN h ELSE Fnv32a(FnvStep(h, Head(s)), Tail(s))

\* hex.EncodeToString(h.Sum(nil)): eight hex digits, most significant first
HexEncode(h) ==
    << h[1] \div 4096, (h[1] \div 256) % 16, (h[1] \div 16) % 16, h[1] % 16,
       h[2] \div 4096, (h[2] \div 256) % 16, (h[2] \div 16) % 16, h[2] % 16 >>

\* the character of a hex digit
HexChar(d) == IF d < 10 THEN 48 + d ELSE 87 + d

\* dump.ForHash(obj): the bytes of the printed object, every field of it:
\* name, content, the annotations (nil, or the template-hash entry), the
\* version token and the status
DumpNoVersion(obj) ==
    << IF obj.name = "" THEN 0 ELSE 116, obj.spec, Len(obj.ann) >>
        \o [i \in 1..Len(obj.ann) |-> HexChar(obj.ann[i])]
        \o << 0, obj.status >>
Dump(obj) ==
    << IF obj.name = "" THEN 0 ELSE 116, obj.spec, Len(obj.ann) >>
        \o [i \in 1..Len(obj.ann) |-> HexChar(obj.ann[i])]
        \o << obj.rv, obj.status >>

HashObject(obj) == HexEncode(Fnv32a(<<FnvOffsetHi, FnvOffsetLo>>, Dump(obj)))

\* annotations[AnnotationKey], "" when the map is nil or has no such entry
GetHash(obj) == obj.ann

\* annotations[AnnotationKey] = hash, the map made when nil
StoreHashNoop(obj, hash) == obj
StoreHash(obj, hash) == [obj EXCEPT !.ann = hash]

\* template.DeepCopyObject()
DeepCopyObject(obj) == obj

\* ------------------------------------------------- the store (client.Client)
\* Each call is atomic; fault is an error of the call that is none of the
\* distinguished ones (transport, authorisation, ...), the store unchanged.

\* c.Get(ctx, key, obj): obj is overwritten with the live object when found
StoreGet(l, into, fault) ==
    IF fault THEN [r |-> "err", obj |-> into]
    ELSE IF l = None THEN [r |-> "notfound", obj |-> into]
    ELSE [r |-> "ok", obj |-> l]

\* c.Create(ctx, obj): rejected when the key exists; a new version token
StoreCreate(l, o, v, fault) ==
    IF fault THEN [r |-> "err", live |-> l]
    ELSE IF l # None THEN [r |-> "exists", live |-> l]
    ELSE [r |-> "ok", live |-> [o EXCEPT !.rv = v + 1]]

\* c.Update(ctx, obj): rejected when the submitted version token is not the
\* live one (unconditional when none is submitted); the status is kept
StoreUpdate(l, o, v, fault) ==
    IF fault THEN [r |-> "err", live |-> l]
    ELSE IF l = None THEN [r |-> "notfound", live |-> l]
    ELSE IF o.rv # 0 /\ o.rv # l.rv THEN [r |-> "conflict", live |-> l]
    ELSE [r |-> "ok", live |-> [o EXCEPT !.rv = v + 1, !.status = l.status]]

\* c.Status().Update(ctx, obj): as Update, but only the status is written
StoreStatusUpdateMain(l, o, v, fault) == StoreUpdate(l, o, v, fault)
StoreStatusUpdate(l, o, v, fault) ==
    IF fault THEN [r |-> "err", live |-> l]
    ELSE IF l = None THEN [r |-> "notfound", live |-> l]
    ELSE IF o.rv # 0 /\ o.rv # l.rv THEN [r |-> "conflict", live |-> l]
    ELSE [r |-> "ok", live |-> [l EXCEPT !.rv = v + 1, !.status = o.status]]

\* --------------------------------------------------------------- the state
VARIABLES
    live,       \* the object stored under Key, or None
    rvc,        \* the store's version counter
    disturbs,   \* injected store errors and outside writes so far
    call,       \* per caller: the invocation in progress or returned
    prev,       \* per caller: the invocation before that one, when it was of
                \* the same operation and returned success, else None
    ncalls,     \* invocations started
    lastTmpl,   \* the template of the last successful template-driven write
    hin,        \* HashObject alone: the two objects given to it
    hout,       \* HashObject alone: their hashes, <<>> before the call
    objects,    \* Resolve: the resources the reader can fetch
    scheme,     \* Resolve: the registered kinds, in registration order
    parent,     \* Resolve: the referencing resource
    ref,        \* Resolve: the reference value
    rres,       \* Resolve: the call made and what it returned, None before
    errv,       \* retryable: an error value, None when there is none
    keysAndValues,  \* zaplogr: the variadic arguments of the logging call
    sink        \* zaplogr: the call made on the FilteringSink, None before

hvars == <<hin, hout>>
\* the state of the reference and retryable packages
rvars == <<objects, scheme, parent, ref, rres, errv>>
\* the state of the zaplogr package
svars == <<keysAndValues, sink>>
vars == <<live, rvc, disturbs, call, prev, ncalls, lastTmpl, hin, hout,
          objects, scheme, parent, ref, rres, errv, keysAndValues, sink>>

\* no reference is being resolved and no error is held
RefIdle ==
    /\ objects = {}
    /\ scheme = <<>>
    /\ parent = None
    /\ ref = None
    /\ rres = None
    /\ errv = None

\* no logging call is made
SinkIdle ==
    /\ keysAndValues = <<>>
    /\ sink = None

NoRes == [ok |-> FALSE, msg |-> "pending", cause |-> ""]
Ok == [ok |-> TRUE, msg |-> "", cause |-> ""]
Errorf(msg, cause) == [ok |-> FALSE, msg |-> msg, cause |-> cause]

Idle ==
    [pc |-> "idle", op |-> "", tmpl |-> None, f |-> NilFunc, obj |-> None,
     hash |-> <<>>, calls |-> <<>>, res |-> NoRes, first |-> None,
     written |-> None, overwrote |-> None, fpAfter |-> <<>>, muts |-> 0,
     dirty |-> FALSE, tnow |-> None]

\* the fingerprint annotation of the live object ("" when there is none)
LiveHash(l) == IF l = None THEN <<>> ELSE GetHash(l)

\* the key as an earlier CreateOrUpdateFromTemplate(c, t) left it
Converged(t) == [StoreHash(DeepCopyObject(t), HashObject(t)) EXCEPT !.rv = 1]

\* the store before the callers start: the key absent, or reconciled earlier
InitialTemplates == {None, CHOOSE t \in Templates : t.spec = 1}

Init ==
    /\ \E t \in InitialTemplates :
            /\ lastTmpl = t
            /\ live = IF t = None THEN None ELSE Converged(t)
            /\ rvc = IF t = None THEN 0 ELSE 1
    /\ disturbs = 0
    /\ call = [p \in Procs |-> Idle]
    /\ prev = [p \in Procs |-> None]
    /\ ncalls = 0
    /\ hin = <<>>
    /\ hout = <<>>
    /\ RefIdle
    /\ SinkIdle

\* ------------------------------------------------------------ bookkeeping
\* the callers are interchangeable: p1 makes the first invocation
Earlier(q, p) == q = "p1" /\ p = "p2"

\* what is remembered of the invocation c when its caller enters operation o
Previous(c, o) ==
    IF c.pc \in {"done", "returned"} /\ c.op = o /\ c.res.ok
    THEN [op |-> c.op, tmpl |-> c.tmpl, calls |-> c.calls, res |-> c.res,
          fpAfter |-> c.fpAfter, dirty |-> c.dirty, first |-> c.first]
    ELSE None

\* a caller enters an operation: the invocation just returned becomes prev
Enter(p, o, t, f) ==
    /\ call[p].pc \in {"idle", "done", "returned"}
    /\ \A q \in Procs : Earlier(q, p) => call[q].pc # "idle"
    /\ ncalls < MaxCalls
    /\ ncalls' = ncalls + 1
    /\ prev' = [prev EXCEPT ![p] = Previous(call[p], o)]

\* what is kept of an invocation once it has returned and another step is
\* taken: of a successful CreateOrUpdateFromTemplate its template, store calls
\* and the fingerprint it left; of any other only that it has returned
Retire(c) ==
    IF c.pc # "done" THEN c
    ELSE IF c.op = "CreateOrUpdateFromTemplate" /\ c.res.ok
    THEN [Idle EXCEPT !.pc = "returned", !.op = c.op, !.tmpl = c.tmpl, !.res = c.res,
                      !.calls = c.calls, !.fpAfter = c.fpAfter, !.dirty = c.dirty,
                      !.first = c.first]
    ELSE [Idle EXCEPT !.pc = "returned"]

\* a write by another client is noted in every invocation begun
Dirtied(c, wrote) == IF wrote /\ c.pc # "idle" THEN [c EXCEPT !.dirty = TRUE] ELSE c

\* the caller's template once the working object is obj: obj is
\* template.DeepCopyObject(), so what is written to obj (the fetched object,
\* the hash annotation, the store's answer) does not reach the template
TemplateAfterShared(template, obj) == IF obj = None THEN template ELSE obj
TemplateAfter(template, obj) == template

\* the caller's template is followed through CreateOrUpdateFromTemplate
Track(c) ==
    IF c.op = "CreateOrUpdateFromTemplate"
    THEN [c EXCEPT !.tnow = TemplateAfter(c.tmpl, c.obj)]
    ELSE c

\* p's invocation becomes c, by a step that wrote to the store or did not
Step(p, c, wrote) ==
    [q \in Procs |-> IF q = p THEN Track(c) ELSE Retire(Dirtied(call[q], wrote))]

Fresh(o, t, f, start) ==
    [Idle EXCEPT !.pc = "get", !.op = o, !.tmpl = t, !.f = f, !.obj = start]

Called(c, name, r) == [c EXCEPT !.calls = Append(@, [c |-> name, r |-> r])]

\* the operation returns r, the live object being l at that moment
Return(c, r, l) == [c EXCEPT !.pc = "done", !.res = r, !.fpAfter = LiveHash(l)]

\* a read: nothing of the store changes
ReadOnly(p, entering, fault) ==
    /\ fault => disturbs < MaxDisturb
    /\ disturbs' = IF fault THEN disturbs + 1 ELSE disturbs
    /\ UNCHANGED <<live, rvc, lastTmpl, hvars, rvars, svars>>
    /\ IF entering THEN TRUE ELSE UNCHANGED <<prev, ncalls>>

\* the outcome w of a write call by p; t is the template that drove it or None
Wrote(p, w, t, keep) ==
    /\ w.r = "err" => disturbs < MaxDisturb
    /\ disturbs' = IF w.r = "err" THEN disturbs + 1 ELSE disturbs
    /\ live' = w.live
    /\ rvc' = IF w.r = "ok" THEN rvc + 1 ELSE rvc
    /\ lastTmpl' = IF w.r = "ok" /\ ~keep THEN t ELSE lastTmpl
    /\ UNCHANGED <<prev, ncalls, hvars, rvars, svars>>

\* the ghost fields of a successful write
Applied(c, w, before) ==
    IF w.r = "ok" THEN [c EXCEPT !.written = w.live, !.overwrote = before, !.obj = w.live]
    ELSE c

\* the callback runs on obj and sets the field it closes over
Mutate(f, o, field) ==
    IF f.nil \/ f.fails THEN o
    ELSE IF field = "spec" THEN [o EXCEPT !.spec = f.val]
    ELSE [o EXCEPT !.status = f.val]

\* "if f != nil { if err := f(); err != nil {": the callback ran and failed
CallbackFailedIgnored(f) == FALSE
CallbackFailed(f) == ~f.nil /\ f.fails

\* ------------------------------------------- CreateOrUpdateFromTemplate
CFT == "CreateOrUpdateFromTemplate"

\* "if err := c.Create/Update(ctx, obj); err != nil": r is the call's outcome
WriteFailedUnlessConflict(r) == r \notin {"ok", "conflict", "exists"}
WriteFailed(r) == r # "ok"

\* the c.Get after a write:
\* "if err := c.Get(ctx, key, obj); err != nil && !apierrors.IsNotFound(err)"
ReGetFailedAlsoNotFound(r) == r # "ok"
ReGetFailed(r) == r = "err"

\* the object submitted to c.Update: the fetched live object, stamped
UpdateObjectFromCopy(template, fetched, hash) ==
    StoreHash(DeepCopyObject(template), hash)
UpdateObjectHashOfLive(template, fetched, hash) ==
    StoreHash(fetched, HashObject(fetched))
UpdateObject(template, fetched, hash) == StoreHash(fetched, hash)

\* is a write needed: the stored hash against the template's
NeedsUpdateNever(existingHash, templateHash) == FALSE
NeedsUpdateAlways(existingHash, templateHash) == TRUE
NeedsUpdate(existingHash, templateHash) == existingHash # templateHash

\* HashObject, DeepCopyObject, the first c.Get and the branch it selects
CreateOrUpdateFromTemplateFirstGet(p, template, templateHash, fault) ==
    LET    g  == StoreGet(live, DeepCopyObject(template), fault)
           c0 == Called([Fresh(CFT, template, NilFunc, g.obj) EXCEPT
                            !.hash = templateHash,
                            !.first = IF g.r = "ok" THEN g.obj ELSE None],
                        "get", g.r)
       IN  call' = Step(p,
                CASE g.r = "err" ->
                        Return([c0 EXCEPT !.obj = None],
                               Errorf("failed to get object", g.r), live)
                  [] g.r = "notfound" ->
                        [c0 EXCEPT !.pc = "create",
                                   !.obj = StoreHash(g.obj, templateHash)]
                  [] g.r = "ok" ->
                        IF NeedsUpdate(GetHash(g.obj), templateHash)
                        THEN [c0 EXCEPT !.pc = "update",
                                        !.obj = UpdateObject(template, g.obj, templateHash)]
                        ELSE Return(c0, Ok, live), FALSE)

CreateOrUpdateFromTemplateGet(p, template, fault) ==
    /\ Enter(p, CFT, template, NilFunc)
    /\ CreateOrUpdateFromTemplateFirstGet(p, template, HashObject(template), fault)
    /\ ReadOnly(p, TRUE, fault)

\* c.Create of the stamped copy
CreateOrUpdateFromTemplateCreate(p, fault) ==
    /\ call[p].op = CFT /\ call[p].pc = "create"
    /\ LET w  == StoreCreate(live, call[p].obj, rvc, fault)
           c1 == Applied(Called(call[p], "create", w.r), w, live)
       IN  /\ call' = Step(p,
                IF ~WriteFailed(w.r) THEN [c1 EXCEPT !.pc = "reget"]
                ELSE Return([c1 EXCEPT !.obj = None],
                            Errorf("failed to create object", w.r), w.live), w.r = "ok")
           /\ Wrote(p, w, call[p].tmpl, FALSE)

\* c.Update of the stamped live object
CreateOrUpdateFromTemplateUpdate(p, fault) ==
    /\ call[p].op = CFT /\ call[p].pc = "update"
    /\ LET w  == StoreUpdate(live, call[p].obj, rvc, fault)
           c1 == Applied(Called(call[p], "update", w.r), w, live)
       IN  /\ call' = Step(p,
                IF ~WriteFailed(w.r) THEN [c1 EXCEPT !.pc = "reget"]
                ELSE Return([c1 EXCEPT !.obj = None],
                            Errorf("failed to update object", w.r), w.live), w.r = "ok")
           /\ Wrote(p, w, call[p].tmpl, FALSE)

\* the c.Get after the write: not-found is swallowed
CreateOrUpdateFromTemplateReGet(p, fault) ==
    /\ call[p].op = CFT /\ call[p].pc = "reget"
    /\ LET g  == StoreGet(live, call[p].obj, fault)
           c1 == Called(call[p], "get", g.r)
       IN  call' = Step(p,
                IF ReGetFailed(g.r)
                THEN Return([c1 EXCEPT !.obj = None],
                            Errorf("failed to get object", g.r), live)
                ELSE Return([c1 EXCEPT !.obj = g.obj], Ok, live), FALSE)
    /\ ReadOnly(p, FALSE, fault)

\* ------------------------------------------------------- CreateOrUpdate
COU == "CreateOrUpdate"

\* obj.SetName(key.Name); obj.SetNamespace(key.Namespace)
SetNameNoop(o, name) == o
SetName(o, name) == [o EXCEPT !.name = name]

\* c.Get into the caller's blank object, SetName/SetNamespace when not found,
\* then the callback
CreateOrUpdateGet(p, f, fault) ==
    /\ Enter(p, COU, None, f)
    /\ LET g  == StoreGet(live, Blank, fault)
           c0 == Called([Fresh(COU, None, f, g.obj) EXCEPT
                            !.first = IF g.r = "ok" THEN g.obj ELSE None],
                        "get", g.r)
           o1 == IF g.r = "notfound" THEN SetName(g.obj, Key) ELSE g.obj
           c1 == [c0 EXCEPT !.obj = Mutate(f, o1, "spec"),
                            !.muts = IF f.nil THEN 0 ELSE 1]
       IN  call' = Step(p,
                IF g.r = "err"
                THEN Return(c0, Errorf("failed to get object", g.r), live)
                ELSE IF CallbackFailed(f)
                THEN Return(c1, Errorf("failed to mutate object", "callback"), live)
                ELSE [c1 EXCEPT !.pc = IF g.r = "notfound" THEN "create" ELSE "update"], FALSE)
    /\ ReadOnly(p, TRUE, fault)

\* c.Create of the newly initialised object; returns without a re-fetch
CreateOrUpdateCreate(p, fault) ==
    /\ call[p].op = COU /\ call[p].pc = "create"
    /\ LET w  == StoreCreate(live, call[p].obj, rvc, fault)
           c1 == Applied(Called(call[p], "create", w.r), w, live)
       IN  /\ call' = Step(p,
                IF ~WriteFailed(w.r) THEN Return(c1, Ok, w.live)
                ELSE Return(c1, Errorf("failed to create object", w.r), w.live), w.r = "ok")
           /\ Wrote(p, w, None, FALSE)

\* c.Update of the fetched, mutated object
CreateOrUpdateUpdate(p, fault) ==
    /\ call[p].op = COU /\ call[p].pc = "update"
    /\ LET w  == StoreUpdate(live, call[p].obj, rvc, fault)
           c1 == Applied(Called(call[p], "update", w.r), w, live)
       IN  /\ call' = Step(p,
                IF ~WriteFailed(w.r) THEN [c1 EXCEPT !.pc = "reget"]
                ELSE Return(c1, Errorf("failed to update object", w.r), w.live), w.r = "ok")
           /\ Wrote(p, w, None, TRUE)

\* "Get the latest version of the object before returning."
CreateOrUpdateReGet(p, fault) ==
    /\ call[p].op = COU /\ call[p].pc = "reget"
    /\ LET g  == StoreGet(live, call[p].obj, fault)
           c1 == Called(call[p], "get", g.r)
       IN  call' = Step(p,
                IF ReGetFailed(g.r)
                THEN Return(c1, Errorf("failed to get updated object", g.r), live)
                ELSE Return([c1 EXCEPT !.obj = g.obj], Ok, live), FALSE)
    /\ ReadOnly(p, FALSE, fault)

\* --------------------------------------------------------- UpdateStatus
\* the UpdateStatus beside CreateOrUpdateFromTemplate returns after the write;
\* the one beside CreateOrUpdate re-fetches first
US == "UpdateStatus"
USR == "UpdateStatusRefetch"

\* "if err := c.Get(ctx, key, obj); err != nil": not-found is an error too
GetFailedUnlessNotFound(r) == r = "err"
GetFailed(r) == r # "ok"

\* c.Get (every error is fatal, not-found too), then the callback
UpdateStatusGet(p, o, f, fault) ==
    /\ o \in {US, USR}
    /\ Enter(p, o, None, f)
    /\ LET g  == StoreGet(live, Blank, fault)
           c0 == Called([Fresh(o, None, f, g.obj) EXCEPT
                            !.first = IF g.r = "ok" THEN g.obj ELSE None],
                        "get", g.r)
           c1 == [c0 EXCEPT !.obj = Mutate(f, g.obj, "status"),
                            !.muts = IF f.nil THEN 0 ELSE 1]
       IN  call' = Step(p,
                IF GetFailed(g.r)
                THEN Return(c0, Errorf("failed to get object", g.r), live)
                ELSE IF CallbackFailed(f)
                THEN Return(c1, Errorf("failed to mutate object", "callback"), live)
                ELSE [c1 EXCEPT !.pc = "status"], FALSE)
    /\ ReadOnly(p, TRUE, fault)

\* c.Status().Update
UpdateStatusWrite(p, fault) ==
    /\ call[p].op \in {US, USR} /\ call[p].pc = "status"
    /\ LET w  == StoreStatusUpdate(live, call[p].obj, rvc, fault)
           c1 == Applied(Called(call[p], "status", w.r), w, live)
       IN  /\ call' = Step(p,
                IF WriteFailed(w.r)
                THEN Return(c1, Errorf("failed to update object", w.r), w.live)
                ELSE IF call[p].op = USR THEN [c1 EXCEPT !.pc = "reget"]
                ELSE Return(c1, Ok, w.live), w.r = "ok")
           /\ Wrote(p, w, None, TRUE)

\* "Get the latest version of the object before returning."
UpdateStatusReGet(p, fault) ==
    /\ call[p].op = USR /\ call[p].pc = "reget"
    /\ LET g  == StoreGet(live, call[p].obj, fault)
           c1 == Called(call[p], "get", g.r)
       IN  call' = Step(p,
                IF ReGetFailed(g.r)
                THEN Return(c1, Errorf("failed to get updated object", g.r), live)
                ELSE Return([c1 EXCEPT !.obj = g.obj], Ok, live), FALSE)
    /\ ReadOnly(p, FALSE, fault)

\* ------------------------------------------------- writers outside the package
\* outside writes are followed while a caller can still see them
Observed ==
    \/ ncalls < MaxCalls
    \/ \E p \in Procs : call[p].pc \notin {"idle", "done", "returned"}

\* another client of the store deletes the key
ExternalDelete ==
    /\ Observed
    /\ live # None
    /\ disturbs < MaxDisturb
    /\ live' = None
    /\ disturbs' = disturbs + 1
    /\ rvc' = rvc + 1
    /\ lastTmpl' = None
    /\ call' = [q \in Procs |-> Retire(Dirtied(call[q], TRUE))]
    /\ UNCHANGED <<prev, ncalls, hvars, rvars, svars>>

\* another client of the store changes the content, leaving the metadata
ExternalEdit(v) ==
    /\ Observed
    /\ live # None
    /\ v = (live.spec % MaxSpec) + 1
    /\ disturbs < MaxDisturb
    /\ live' = [live EXCEPT !.spec = v, !.rv = rvc + 1]
    /\ disturbs' = disturbs + 1
    /\ rvc' = rvc + 1
    /\ call' = [q \in Procs |-> Retire(Dirtied(call[q], TRUE))]
    /\ UNCHANGED <<prev, ncalls, lastTmpl, hvars, rvars, svars>>

Next ==
    \/ \E p \in Procs, t \in Templates, fault \in BOOLEAN :
            CreateOrUpdateFromTemplateGet(p, t, fault)
    \/ \E p \in Procs, fault \in BOOLEAN : CreateOrUpdateFromTemplateCreate(p, fault)
    \/ \E p \in Procs, fault \in BOOLEAN : CreateOrUpdateFromTemplateUpdate(p, fault)
    \/ \E p \in Procs, fault \in BOOLEAN : CreateOrUpdateFromTemplateReGet(p, fault)
    \/ \E p \in Procs, f \in MutateFuncs, fault \in BOOLEAN : CreateOrUpdateGet(p, f, fault)
    \/ \E p \in Procs, fault \in BOOLEAN : CreateOrUpdateCreate(p, fault)
    \/ \E p \in Procs, fault \in BOOLEAN : CreateOrUpdateUpdate(p, fault)
    \/ \E p \in Procs, fault \in BOOLEAN : CreateOrUpdateReGet(p, fault)
    \/ \E p \in Procs, o \in {US, USR}, f \in MutateFuncs, fault \in BOOLEAN :
            UpdateStatusGet(p, o, f, fault)
    \/ \E p \in Procs, fault \in BOOLEAN : UpdateStatusWrite(p, fault)
    \/ \E p \in Procs, fault \in BOOLEAN : UpdateStatusReGet(p, fault)
    \/ ExternalDelete
    \/ \E v \in 1..MaxSpec : ExternalEdit(v)

Spec == Init /\ [][Next]_vars

\* ------------------------------------------------------ HashObject alone
\* the version tokens of the objects hashed
MaxVersion == 2

\* objects as a caller may hand them to HashObject: templates, and objects
\* read back from the store (version token, status, stored fingerprint)
HashInputs ==
    {[name |-> Key, spec |-> s, ann |-> a, rv |-> v, status |-> st] :
        s \in 1..MaxSpec,
        a \in {<<>>} \cup {HashObject(t) : t \in Templates},
        v \in 0..MaxVersion,
        st \in 0..1}

InitHash ==
    /\ hin \in HashInputs \X HashInputs
    /\ hout = <<>>
    /\ live = None
    /\ rvc = 0
    /\ disturbs = 0
    /\ call = [p \in Procs |-> Idle]
    /\ prev = [p \in Procs |-> None]
    /\ ncalls = 0
    /\ lastTmpl = None
    /\ RefIdle
    /\ SinkIdle

\* HashObject(T) and HashObject(copy of U)
HashObjects ==
    /\ hout = <<>>
    /\ hout' = <<HashObject(hin[1]), HashObject(DeepCopyObject(hin[2]))>>
    /\ UNCHANGED <<hin, live, rvc, disturbs, call, prev, ncalls, lastTmpl, rvars, svars>>

NextHash == HashObjects

SpecHash == InitHash /\ [][NextHash]_vars

\* ------------------------------------------------------------ error values
\* the store and the callers of the updater package at rest
UpdaterIdle ==
    /\ live = None
    /\ rvc = 0
    /\ disturbs = 0
    /\ call = [p \in Procs |-> Idle]
    /\ prev = [p \in Procs |-> None]
    /\ ncalls = 0
    /\ lastTmpl = None
    /\ hin = <<>>
    /\ hout = <<>>

\* a nil error
NilErr == [type |-> "nil"]

\* an error of the store's taxonomy (apierrors.StatusError) with its reason
StatusError(reason) == [type |-> "StatusError", reason |-> reason, msg |-> <<reason>>]

\* errors.New(msg), fmt.Errorf(msg) without %w
ErrorString(msg) == [type |-> "errorString", msg |-> <<msg>>]

\* err.Error(): retryableError embeds error, so Error() is the embedded one's
RECURSIVE ErrorMsg(_)
ErrorMsg(e) == IF e.type = "retryableError" THEN ErrorMsg(e.error) ELSE e.msg

\* fmt.Errorf("msg: %w", err)
WrapError(msg, err) ==
    [type |-> "wrapError", msg |-> <<msg>> \o ErrorMsg(err), err |-> err]

\* retryable.Retryable(err): retryableError{error: err}
Retryable(err) == [type |-> "retryableError", error |-> err]

\* retryable.IsRetryable(err): the type assertion err.(retryableError) on the
\* error value itself
IsRetryable(err) == err.type = "retryableError"

\* errors.Unwrap(err): the result of err's Unwrap method; retryableError has
\* only the Error method of the error it embeds
Unwrap(e) == IF e.type = "wrapError" THEN e.err ELSE NilErr

\* errors.Is(err, target): target is err or is on err's Unwrap chain
RECURSIVE ErrorsIs(_, _)
ErrorsIs(e, target) ==
    \/ e = target
    \/ Unwrap(e) # NilErr /\ ErrorsIs(Unwrap(e), target)

\* apierrors.IsNotFound(err): a StatusError with reason NotFound on the chain
RECURSIVE IsNotFound(_)
IsNotFound(e) ==
    \/ e.type = "StatusError" /\ e.reason = "NotFound"
    \/ Unwrap(e) # NilErr /\ IsNotFound(Unwrap(e))

\* ------------------------------------------------------ reference package
GVK(av, k) == [apiVersion |-> av, kind |-> k]

\* ObjectReference{Name, Namespace, APIVersion, Kind} and the three
\* same-namespace reference types; "" is an unset field
ObjectReference(n, ns, av, k) ==
    [type |-> "ObjectReference", name |-> n, namespace |-> ns,
     apiVersion |-> av, kind |-> k]
LocalObjectReference(n, av, k) ==
    [type |-> "LocalObjectReference", name |-> n, apiVersion |-> av, kind |-> k]
LocalSecretReference(n) == [type |-> "LocalSecretReference", name |-> n]
LocalConfigMapReference(n) == [type |-> "LocalConfigMapReference", name |-> n]

Names == {"first", "demo"}
Namespaces == {"default", "other"}
APIVersions == {"v1", "example.com/v1"}
Kinds == {"MyObject", "Secret", "ConfigMap"}

References ==
    {ObjectReference(n, ns, av, k) :
        n \in Names, ns \in Namespaces \cup {""}, av \in APIVersions \cup {""},
        k \in Kinds}
    \cup {LocalObjectReference(n, av, k) :
        n \in Names, av \in APIVersions \cup {""}, k \in Kinds}
    \cup {LocalSecretReference(n) : n \in Names}
    \cup {LocalConfigMapReference(n) : n \in Names}

\* the referencing resource: its Go type (named by its kind), its namespace,
\* and whether it has object metadata (meta.Accessor succeeds)
Parents ==
    {[kind |-> "MyObject", namespace |-> ns, meta |-> TRUE] : ns \in Namespaces}
    \cup {[kind |-> "Bare", namespace |-> "", meta |-> FALSE]}

\* runtime.Scheme: the kinds registered, in order of registration
Schemes ==
    { <<>>,
      <<GVK("example.com/v1", "MyObject")>>,
      <<GVK("example.com/v1", "MyObject"), GVK("v1", "Secret"),
        GVK("v1", "ConfigMap"), GVK("example.com/v1", "Bare")>>,
      <<GVK("v1", "MyObject"), GVK("example.com/v1", "MyObject"),
        GVK("v1", "Bare")>> }

\* a stored resource; decodable: its content fits the registered Go type
Stored(av, k, ns, n, d) ==
    [apiVersion |-> av, kind |-> k, namespace |-> ns, name |-> n, decodable |-> d]

\* what the reader's store may hold
Stores ==
    { {},
      {Stored("example.com/v1", "MyObject", "default", "first", TRUE),
       Stored("v1", "Secret", "default", "demo", TRUE),
       Stored("v1", "ConfigMap", "other", "demo", TRUE)},
      {Stored("v1", "MyObject", "other", "first", TRUE),
       Stored("example.com/v1", "MyObject", "other", "first", FALSE),
       Stored("v1", "Secret", "other", "demo", FALSE),
       Stored("v1", "ConfigMap", "default", "demo", TRUE)} }

\* scheme.ObjectKinds(parent): the kinds registered for parent's type
ObjectKinds(sch, par) ==
    LET gvks == SelectSeq(sch, LAMBDA g : g.kind = par.kind)
    IN  IF gvks = <<>>
        THEN [gvks |-> <<>>, err |-> ErrorString("no kind is registered for the type")]
        ELSE [gvks |-> gvks, err |-> NilErr]

\* meta.Accessor(parent)
Accessor(par) ==
    IF par.meta THEN [namespace |-> par.namespace, err |-> NilErr]
    ELSE [namespace |-> "", err |-> ErrorString("object does not implement the Object interfaces")]

\* reader.Get(ctx, key, &u), u carrying apiVersion and kind
ReaderGet(objs, gvk, ns, n, fault) ==
    LET found == {o \in objs : /\ o.apiVersion = gvk.apiVersion /\ o.kind = gvk.kind
                                /\ o.namespace = ns /\ o.name = n}
    IN  IF fault THEN [u |-> None, err |-> StatusError("Forbidden")]
        ELSE IF found = {} THEN [u |-> None, err |-> StatusError("NotFound")]
        ELSE [u |-> CHOOSE o \in found : TRUE, err |-> NilErr]

\* serializer.NewCodecFactory(scheme).UniversalDeserializer().Decode(bytes)
Decode(sch, u) ==
    IF \A i \in 1..Len(sch) : sch[i] # GVK(u.apiVersion, u.kind)
    THEN [obj |-> None, notRegistered |-> TRUE, err |-> ErrorString("no kind is registered")]
    ELSE IF ~u.decodable
    THEN [obj |-> None, notRegistered |-> FALSE, err |-> ErrorString("cannot unmarshal")]
    ELSE [obj |-> [repr |-> "typed", u |-> u], notRegistered |-> FALSE, err |-> NilErr]

\* "x := ref.X; if x == "" { x = <the parent's> }"
OrDefaultNever(explicit, default) == explicit
OrDefault(explicit, default) == IF explicit = "" THEN default ELSE explicit

\* gvks[0].GroupVersion().String()
GroupVersion(gvk) == gvk.apiVersion

\* u.MarshalJSON()
MarshalJSON(u) == [bytes |-> u, err |-> NilErr]

\* the receiver after Resolve: apiVersion and namespace are defaulted in
\* local variables, the reference is only read
RefAfterWrittenBack(r, apiVersion, namespace) ==
    [r EXCEPT !.apiVersion = apiVersion, !.namespace = namespace]
RefAfter(r, apiVersion, namespace) == r

\* the error returned for a failed reader.Get
FetchFailedAlwaysRetryable(err) == Retryable(err)
FetchFailed(err) ==
    IF IsNotFound(err) THEN Retryable(err)
    ELSE WrapError("failed to resolve reference", err)

\* the object returned when decoding fails
DecodeFailedNoFallback(u, d) ==
    [out |-> None, err |-> WrapError("failed to decode unstructured object", d.err)]
DecodeFailed(u, d) ==
    IF d.notRegistered THEN [out |-> [repr |-> "unstructured", u |-> u], err |-> NilErr]
    ELSE [out |-> None, err |-> WrapError("failed to decode unstructured object", d.err)]

\* a return of Resolve: the object, the error, the fetches issued (what was
\* asked for and the reader's answer), whether
\* the call panicked instead, and the receiver afterwards
Returns(out, err, gets, r) ==
    [out |-> out, err |-> err, gets |-> gets, panic |-> FALSE, ref |-> r]

\* func (ref *ObjectReference) Resolve(ctx, reader, scheme, parent)
Resolve(r, objs, sch, par, fault) ==
    LET kinds      == ObjectKinds(sch, par)
        apiVersion == OrDefault(r.apiVersion,
                                IF kinds.gvks = <<>> THEN ""
                                ELSE GroupVersion(kinds.gvks[1]))
        acc        == Accessor(par)
        namespace  == OrDefault(r.namespace, acc.namespace)
        g          == ReaderGet(objs, GVK(apiVersion, r.kind), namespace, r.name, fault)
        get        == [gvk |-> GVK(apiVersion, r.kind), namespace |-> namespace,
                       name |-> r.name, err |-> g.err]
        m          == MarshalJSON(g.u)
        d          == Decode(sch, m.bytes)
        after      == RefAfter(r, apiVersion, namespace)
    IN  IF r.apiVersion = "" /\ kinds.err # NilErr
        THEN Returns(None, WrapError("failed to get object kinds", kinds.err), <<>>, r)
        ELSE IF r.apiVersion = "" /\ Len(kinds.gvks) = 0
        THEN Returns(None, ErrorString("no object kinds found"), <<>>, r)
        ELSE IF r.namespace = "" /\ acc.err # NilErr
        THEN Returns(None, WrapError("failed to get accessor", acc.err), <<>>, r)
        ELSE IF g.err # NilErr
        THEN Returns(None, FetchFailed(g.err), <<get>>, after)
        ELSE IF m.err # NilErr
        THEN Returns(None, WrapError("failed to marshal unstructured object", m.err),
                     <<get>>, after)
        ELSE IF d.err # NilErr
        THEN Returns(DecodeFailed(g.u, d).out, DecodeFailed(g.u, d).err, <<get>>, after)
        ELSE Returns(d.obj, NilErr, <<get>>, after)

\* obj.(*corev1.Secret), obj.(*corev1.ConfigMap): the unchecked type assertion
\* panics on any other representation
TypeAssert(res, kind) ==
    IF res.out.repr = "typed" /\ res.out.u.kind = kind THEN res
    ELSE [res EXCEPT !.out = None, !.panic = TRUE]

\* the ObjectReference the same-namespace types build: no namespace
LocalRef(n, av, k) == ObjectReference(n, "", av, k)

\* the state after a Resolve on the reference held in ref
Resolved(op, res, refAfter) ==
    /\ rres' = [op |-> op, ref |-> ref, out |-> res.out, err |-> res.err,
                gets |-> res.gets, panic |-> res.panic]
    /\ ref' = refAfter
    /\ UNCHANGED <<objects, scheme, parent, errv>>
    /\ UNCHANGED <<live, rvc, disturbs, call, prev, ncalls, lastTmpl, hvars, svars>>

\* func (ref *ObjectReference) Resolve
ObjectReferenceResolve(fault) ==
    /\ ref # None /\ ref.type = "ObjectReference"
    /\ LET res == Resolve(ref, objects, scheme, parent, fault)
       IN  Resolved("ObjectReference", res, res.ref)

\* func (ref *LocalObjectReference) Resolve
LocalObjectReferenceResolve(fault) ==
    /\ ref # None /\ ref.type = "LocalObjectReference"
    /\ LET objRef == LocalRef(ref.name, ref.apiVersion, ref.kind)
           res    == Resolve(objRef, objects, scheme, parent, fault)
       IN  Resolved("LocalObjectReference", res, ref)

\* func (ref *LocalSecretReference) Resolve
LocalSecretReferenceResolve(fault) ==
    /\ ref # None /\ ref.type = "LocalSecretReference"
    /\ LET objRef == LocalRef(ref.name, "v1", "Secret")
           res    == Resolve(objRef, objects, scheme, parent, fault)
       IN  Resolved("LocalSecretReference",
                    IF res.err # NilErr THEN res ELSE TypeAssert(res, "Secret"), ref)

\* func (ref *LocalConfigMapReference) Resolve
LocalConfigMapReferenceResolve(fault) ==
    /\ ref # None /\ ref.type = "LocalConfigMapReference"
    /\ LET objRef == LocalRef(ref.name, "v1", "ConfigMap")
           res    == Resolve(objRef, objects, scheme, parent, fault)
       IN  Resolved("LocalConfigMapReference",
                    IF res.err # NilErr THEN res ELSE TypeAssert(res, "ConfigMap"), ref)

InitRef ==
    /\ UpdaterIdle
    /\ SinkIdle
    /\ objects \in Stores
    /\ scheme \in Schemes
    /\ parent \in Parents
    /\ ref \in References
    /\ rres = None
    /\ errv = None

NextRef ==
    \/ \E fault \in BOOLEAN : ObjectReferenceResolve(fault)
    \/ \E fault \in BOOLEAN : LocalObjectReferenceResolve(fault)
    \/ \E fault \in BOOLEAN : LocalSecretReferenceResolve(fault)
    \/ \E fault \in BOOLEAN : LocalConfigMapReferenceResolve(fault)

SpecRef == InitRef /\ [][NextRef]_vars

\* ------------------------------------------------------ retryable package
\* wrappers put around an error, Retryable and fmt.Errorf("%w") together
MaxWrap == 4

\* the errors a caller starts from: the store's kinds, and a plain one
BaseErrors ==
    {StatusError(r) : r \in {"NotFound", "AlreadyExists", "Conflict", "Forbidden"}}
    \cup {ErrorString("boom")}

\* the wrappers around the base error of e
RECURSIVE Depth(_)
Depth(e) ==
    IF e.type = "retryableError" THEN 1 + Depth(e.error)
    ELSE IF e.type = "wrapError" THEN 1 + Depth(e.err)
    ELSE 0

\* errv holds the error and the call that produced it
InitRetry ==
    /\ UpdaterIdle
    /\ SinkIdle
    /\ objects = {}
    /\ scheme = <<>>
    /\ parent = None
    /\ ref = None
    /\ rres = None
    /\ errv \in {[e |-> b, by |-> "store"] : b \in BaseErrors}

\* err = retryable.Retryable(err)
MarkRetryable ==
    /\ Depth(errv.e) < MaxWrap
    /\ errv' = [e |-> Retryable(errv.e), by |-> "Retryable"]
    /\ UNCHANGED <<objects, scheme, parent, ref, rres>>
    /\ UNCHANGED <<live, rvc, disturbs, call, prev, ncalls, lastTmpl, hvars, svars>>

\* err = fmt.Errorf("context: %w", err)
AddContext ==
    /\ Depth(errv.e) < MaxWrap
    /\ errv' = [e |-> WrapError("context", errv.e), by |-> "Errorf"]
    /\ UNCHANGED <<objects, scheme, parent, ref, rres>>
    /\ UNCHANGED <<live, rvc, disturbs, call, prev, ncalls, lastTmpl, hvars, svars>>

NextRetry == MarkRetryable \/ AddContext

SpecRetry == InitRetry /\ [][NextRetry]_vars

\* -------------------------------------------------------- zaplogr package
\* the longest argument list of a logging call
MaxLen == 3

\* the values of a logging call: strings and klog.ObjectRef
String(s) == [type |-> "string", s |-> s]
ObjectRef(namespace, name) ==
    [type |-> "klog.ObjectRef", namespace |-> namespace, name |-> name]

\* klog.ObjectRef.String(): "namespace/name", or "name" without a namespace
ObjectRefString(v) ==
    String(IF v.namespace = "" THEN v.name ELSE v.namespace \o "/" \o v.name)

Anys == {String("pod"), String("default/demo"),
         ObjectRef("default", "demo"), ObjectRef("", "demo")}

\* the argument lists of at most n values
RECURSIVE Lists(_)
Lists(n) ==
    IF n = 0 THEN {<<>>}
    ELSE LET shorter == Lists(n - 1)
         IN  shorter \cup {Append(l, a) : l \in {m \in shorter : Len(m) = n - 1},
                                          a \in Anys}

\* Go's keysAndValues[j], j from 0: the value, or the run-time panic of an
\* index out of range
Index(kv, j) ==
    IF j < Len(kv) THEN [panic |-> FALSE, v |-> kv[j + 1]]
    ELSE [panic |-> TRUE, v |-> None]

\* the loop of replaceObjectRef from index i: the list it leaves, the indices
\* it read, and whether a read panicked
RECURSIVE Scan(_, _, _)
Scan(kv, i, reads) ==
    IF ~(i < Len(kv)) THEN [kv |-> kv, reads |-> reads, panic |-> FALSE]
    ELSE LET x == Index(kv, i + 1)
         IN  IF x.panic
             THEN [kv |-> kv, reads |-> reads \cup {i + 1}, panic |-> TRUE]
             ELSE Scan(IF x.v.type = "klog.ObjectRef"
                       THEN [kv EXCEPT ![i + 2] = ObjectRefString(x.v)]
                       ELSE kv,
                       i + 2, reads \cup {i + 1})

replaceObjectRef(kv) == Scan(kv, 0, {})

\* a method of FilteringSink that filters its arguments and hands them to
\* the embedded LogSink, which is not reached when the filter panics
Filtered(method, kv) ==
    LET r == replaceObjectRef(kv)
    IN  [method |-> method, reads |-> r.reads, panic |-> r.panic,
         passed |-> IF r.panic THEN None ELSE r.kv]

FilteringSinkCall(method) ==
    /\ sink = None
    /\ sink' = Filtered(method, keysAndValues)
    /\ UNCHANGED <<keysAndValues, rvars>>
    /\ UNCHANGED <<live, rvc, disturbs, call, prev, ncalls, lastTmpl, hvars>>

FilteringSinkInfo == FilteringSinkCall("Info")
FilteringSinkError == FilteringSinkCall("Error")
FilteringSinkWithValues == FilteringSinkCall("WithValues")

InitSink ==
    /\ UpdaterIdle
    /\ RefIdle
    /\ keysAndValues \in Lists(MaxLen)
    /\ sink = None

NextSink == FilteringSinkInfo \/ FilteringSinkError \/ FilteringSinkWithValues

SpecSink == InitSink /\ [][NextSink]_vars

\* ------------------------------ a control loop around CreateOrUpdateFromTemplate
\* One caller reconciles the key towards one template: it calls
\* CreateOrUpdateFromTemplate, calls again after every error, and may or may
\* not call again after a success.  The other writers are ExternalDelete and
\* ExternalEdit, and the store's failures are the faults of the round trips;
\* both are bounded by MaxDisturb.
Looper == CHOOSE p \in Procs : \A q \in Procs : Earlier(p, q) \/ p = q

RequeueTemplate == CHOOSE t \in Templates : t.spec = MaxSpec

\* its fingerprint, the same at every call of the loop
RequeueHash == HashObject(RequeueTemplate)

\* the key starts absent, or as some template's converged object, with the
\* content it was written with or a content another writer gave it since
InitRequeue ==
    /\ \E t \in Templates \cup {None}, v \in 1..MaxSpec :
            /\ lastTmpl = t
            /\ live = IF t = None THEN None ELSE [Converged(t) EXCEPT !.spec = v]
            /\ rvc = IF t = None THEN 0 ELSE 1
    /\ disturbs = 0
    /\ call = [p \in Procs |-> Idle]
    /\ prev = [p \in Procs |-> None]
    /\ ncalls = 0
    /\ hin = <<>>
    /\ hout = <<>>
    /\ RefIdle
    /\ SinkIdle

\* the loop calls CreateOrUpdateFromTemplate(RequeueTemplate)
Requeue(fault) ==
    /\ prev' = [prev EXCEPT ![Looper] = Previous(call[Looper], CFT)]
    /\ ncalls' = ncalls
    /\ CreateOrUpdateFromTemplateFirstGet(Looper, RequeueTemplate, RequeueHash, fault)
    /\ ReadOnly(Looper, TRUE, fault)

\* the first call of the loop
RequeueFirst ==
    /\ call[Looper].pc = "idle"
    /\ \E fault \in BOOLEAN : Requeue(fault)

\* the call after one that returned an error
RequeueAfterError ==
    /\ call[Looper].pc \in {"done", "returned"}
    /\ ~call[Looper].res.ok
    /\ \E fault \in BOOLEAN : Requeue(fault)

\* a call after one that returned nil: the loop is free not to make it
RequeueAfterSuccess ==
    /\ call[Looper].pc \in {"done", "returned"}
    /\ call[Looper].res.ok
    /\ \E fault \in BOOLEAN : Requeue(fault)

\* the round trips of the call in progress
RequeueCreate == \E fault \in BOOLEAN : CreateOrUpdateFromTemplateCreate(Looper, fault)
RequeueUpdate == \E fault \in BOOLEAN : CreateOrUpdateFromTemplateUpdate(Looper, fault)
RequeueReGet == \E fault \in BOOLEAN : CreateOrUpdateFromTemplateReGet(Looper, fault)

NextRequeue ==
    \/ RequeueFirst
    \/ RequeueAfterError
    \/ RequeueAfterSuccess
    \/ RequeueCreate
    \/ RequeueUpdate
    \/ RequeueReGet
    \/ ExternalDelete
    \/ \E v \in 1..MaxSpec : ExternalEdit(v)

\* the store answers every request, and the loop calls again after an error
SpecRequeue ==
    /\ InitRequeue
    /\ [][NextRequeue]_vars
    /\ WF_vars(RequeueFirst)
    /\ WF_vars(RequeueAfterError)
    /\ WF_vars(RequeueCreate)
    /\ WF_vars(RequeueUpdate)
    /\ WF_vars(RequeueReGet)

\* ================================================================ claims
WriteCalls == {"create", "update", "status"}
NumCalls(cs, names) == Cardinality({i \in 1..Len(cs) : cs[i].c \in names})
NumWrites(cs) == NumCalls(cs, WriteCalls)
NumReads(cs) == NumCalls(cs, {"get"})
Last(cs) == cs[Len(cs)]
GetOk == [c |-> "get", r |-> "ok"]

\* p has just returned from op
Returned(p, o) == call[p].pc = "done" /\ call[p].op = o

\* p has just returned successfully from the second of two successive
\* CreateOrUpdateFromTemplate calls with the same template, both successful,
\* no other writer having written since the first began
TwiceInARow(p) ==
    /\ Returned(p, CFT)
    /\ call[p].res.ok
    /\ prev[p] # None
    /\ prev[p].tmpl = call[p].tmpl
    /\ ~prev[p].dirty
    /\ ~call[p].dirty

\* the object the first read of an invocation found carried the template's hash
FoundConverged(first, template) ==
    first # None /\ GetHash(first) = HashObject(template)

\* C1 as stated: of two successive calls with the same template and no other
\* writer in between, the first performs exactly one write, the second exactly
\* one read and no write, and the stored fingerprint is the same after both.
C1_Idempotence_Original ==
    \A p \in Procs :
        TwiceInARow(p) =>
            /\ NumWrites(prev[p].calls) = 1
            /\ call[p].calls = <<GetOk>>
            /\ prev[p].fpAfter = call[p].fpAfter

\* C1 amended: the first call performs exactly one write when it finds the key
\* absent or carrying another fingerprint and none when the key already
\* carries the template's; the second performs exactly one read and no
\* write; the stored fingerprint after both is the template's.
C1_Idempotence ==
    \A p \in Procs :
        TwiceInARow(p) =>
            /\ NumWrites(prev[p].calls) =
                    IF FoundConverged(prev[p].first, call[p].tmpl) THEN 0 ELSE 1
            /\ call[p].calls = <<GetOk>>
            /\ prev[p].fpAfter = call[p].fpAfter
            /\ call[p].fpAfter = HashObject(call[p].tmpl)

C1_Witness ==
    \E p \in Procs :
        /\ TwiceInARow(p)
        /\ NumWrites(prev[p].calls) = 1
        /\ call[p].calls = <<GetOk>>

\* C2: after a successful CreateOrUpdateFromTemplate that found the key absent
\* (create path) or carrying another fingerprint (update path), no other
\* writer having written meanwhile, the key exists and its content is the
\* template's.
C2_ContentMatchesTemplate ==
    \A p \in Procs :
        ( /\ Returned(p, CFT)
          /\ call[p].res.ok
          /\ ~call[p].dirty
          /\ ~FoundConverged(call[p].first, call[p].tmpl) ) =>
            /\ live # None
            /\ live.name = call[p].tmpl.name
            /\ live.spec = call[p].tmpl.spec

\* C3: when a call with template T follows a successful call with T that left
\* T's fingerprint, and its read finds the content changed by another writer,
\* it writes and the content is T's again.
C3_DriftCorrected ==
    \A p \in Procs :
        ( /\ Returned(p, CFT)
          /\ call[p].res.ok
          /\ prev[p] # None
          /\ prev[p].tmpl = call[p].tmpl
          /\ prev[p].fpAfter = HashObject(call[p].tmpl)
          /\ call[p].first # None
          /\ call[p].first.spec # call[p].tmpl.spec
          /\ ~call[p].dirty ) =>
            /\ NumWrites(call[p].calls) >= 1
            /\ live # None
            /\ live.spec = call[p].tmpl.spec

\* the first read found the key carrying the fingerprint of another template
FoundOtherTemplate(p) ==
    /\ call[p].first # None
    /\ \E t \in Templates :
            /\ t.spec # call[p].tmpl.spec
            /\ GetHash(call[p].first) = HashObject(t)

\* C4: a call whose read finds the key converged to a template of other
\* content issues exactly one update, no create, and never zero writes.
C4_ChangeDetection ==
    \A p \in Procs :
        (Returned(p, CFT) /\ FoundOtherTemplate(p)) =>
            /\ NumCalls(call[p].calls, {"update"}) = 1
            /\ NumCalls(call[p].calls, {"create"}) = 0
            /\ NumWrites(call[p].calls) = 1
            /\ call[p].calls[2].c = "update"

C4_Witness ==
    \E p \in Procs :
        /\ Returned(p, CFT)
        /\ FoundOtherTemplate(p)
        /\ call[p].res.ok
        /\ call[p].calls[2] = [c |-> "update", r |-> "ok"]

\* p has just returned successfully from a call that found the key absent
CreatedPath(p) ==
    /\ Returned(p, CFT)
    /\ call[p].res.ok
    /\ call[p].calls[1].r = "notfound"

\* C5 as stated: on an absent key the object is created exactly once, the
\* created and the returned object carry the template's hash, and the
\* returned object is the copy fetched after the create.
C5_CreationPath_Original ==
    \A p \in Procs :
        CreatedPath(p) =>
            /\ NumCalls(call[p].calls, {"create"}) = 1
            /\ GetHash(call[p].written) = HashObject(call[p].tmpl)
            /\ GetHash(call[p].obj) = HashObject(call[p].tmpl)
            /\ Last(call[p].calls) = GetOk
            /\ call[p].obj = live

\* C5 amended: on an absent key the object is created exactly once and the
\* created object carries the template's hash; the returned object is the copy
\* fetched after the create when that fetch finds the key, and the object as
\* created when it does not; when no other writer wrote during the call the
\* returned object is the fetched copy, equal to the created object.
C5_CreationPath ==
    \A p \in Procs :
        CreatedPath(p) =>
            /\ Len(call[p].calls) = 3
            /\ call[p].calls[2] = [c |-> "create", r |-> "ok"]
            /\ call[p].calls[3].c = "get"
            /\ GetHash(call[p].written) = HashObject(call[p].tmpl)
            /\ call[p].written.spec = call[p].tmpl.spec
            /\ Last(call[p].calls).r = "ok" => call[p].obj = live
            /\ Last(call[p].calls).r = "notfound" => call[p].obj = call[p].written
            /\ ~call[p].dirty =>
                    /\ Last(call[p].calls) = GetOk
                    /\ call[p].obj = call[p].written

C5_Witness ==
    \E p \in Procs :
        /\ CreatedPath(p)
        /\ ~call[p].dirty
        /\ call[p].obj = live
        /\ GetHash(call[p].obj) = HashObject(call[p].tmpl)

\* C6: the fingerprint stored on the live object is that of the template of
\* the last successful template-driven write, and the fingerprint a call is
\* about to write is computed from its template alone, whatever the status
\* and version token of the object it fetched.
C6_FingerprintInvariant ==
    /\ (live # None /\ GetHash(live) # <<>>) =>
            /\ lastTmpl # None
            /\ GetHash(live) = HashObject(lastTmpl)
    /\ \A p \in Procs :
            (call[p].op = CFT /\ call[p].pc \in {"create", "update", "reget"}) =>
                /\ call[p].hash = HashObject(call[p].tmpl)
                /\ call[p].pc \in {"create", "update"} =>
                        GetHash(call[p].obj) = call[p].hash
                /\ call[p].written # None =>
                        GetHash(call[p].written) = call[p].hash

C6_Witness ==
    /\ live # None
    /\ live.status # 0
    /\ live.rv > 2
    /\ GetHash(live) # <<>>
    /\ \E p \in Procs : call[p].op = CFT /\ call[p].written = live

\* equal in every field but the version token and the fingerprint annotation
SameButBookkeeping(a, b) ==
    a.name = b.name /\ a.spec = b.spec /\ a.status = b.status

C8_NoPartialWrite_Original ==
    \A p \in Procs :
        call[p].pc = "done" =>
            IF call[p].res.ok
            THEN NumWrites(call[p].calls) >= 1 => call[p].written # None
            ELSE call[p].written = None

\* C8 amended: a call that returns success after issuing a write has had it
\* applied; a call whose write is rejected returns an error with the store
\* unchanged by it; a call returns an error after an applied write exactly
\* when the re-fetch that follows the write fails with an error other than
\* not-found.
C8_NoPartialWrite ==
    \A p \in Procs :
        call[p].pc = "done" =>
            /\ (call[p].res.ok /\ NumWrites(call[p].calls) >= 1) =>
                    call[p].written # None
            /\ (~call[p].res.ok /\ call[p].written # None) =>
                    /\ Len(call[p].calls) = 3
                    /\ Last(call[p].calls) = [c |-> "get", r |-> "err"]
                    /\ call[p].res.msg \in
                            {"failed to get object", "failed to get updated object"}
            /\ (call[p].calls # <<>> /\ Last(call[p].calls).c \in WriteCalls
                    /\ Last(call[p].calls).r # "ok") =>
                    /\ ~call[p].res.ok
                    /\ call[p].written = None

C8_Witness ==
    \E p \in Procs :
        /\ call[p].pc = "done"
        /\ ~call[p].res.ok
        /\ call[p].written # None

\* C9: CreateOrUpdateFromTemplate and CreateOrUpdate submit every update with
\* the version token their own read obtained; an applied update replaced
\* exactly the object that call read and an applied create replaced nothing;
\* a write the store rejected (conflict, already-exists, not-found) gives its
\* caller an error.
C9_NoSilentOverwrite ==
    \A p \in Procs :
        call[p].op \in {CFT, COU} =>
            /\ call[p].pc = "update" =>
                    /\ call[p].first # None
                    /\ call[p].obj.rv = call[p].first.rv
                    /\ call[p].obj.rv # 0
            /\ (call[p].written # None /\ call[p].calls[2].c = "update") =>
                    call[p].overwrote = call[p].first
            /\ (call[p].written # None /\ call[p].calls[2].c = "create") =>
                    call[p].overwrote = None
            /\ (call[p].pc = "done" /\ Len(call[p].calls) >= 2
                    /\ call[p].calls[2].r \in {"conflict", "exists", "notfound"}) =>
                    /\ ~call[p].res.ok
                    /\ call[p].written = None

C9_Witness ==
    \E p \in Procs :
        /\ call[p].op \in {CFT, COU}
        /\ call[p].pc = "done"
        /\ Len(call[p].calls) = 2
        /\ call[p].calls[2] = [c |-> "update", r |-> "conflict"]
        /\ ~call[p].res.ok

\* C10: in CreateOrUpdateFromTemplate and CreateOrUpdate a rejected create or
\* update is the last store call of the invocation, the only write of it, and
\* the invocation returns that error.
C10_NoInternalRetry ==
    \A p \in Procs :
        call[p].op \in {CFT, COU} =>
            \A i \in 1..Len(call[p].calls) :
                (call[p].calls[i].c \in WriteCalls /\ call[p].calls[i].r # "ok") =>
                    /\ i = Len(call[p].calls)
                    /\ NumWrites(call[p].calls) = 1
                    /\ call[p].pc = "done"
                    /\ ~call[p].res.ok
                    /\ call[p].res.cause = call[p].calls[i].r
                    /\ call[p].res.msg =
                            IF call[p].calls[i].c = "create"
                            THEN "failed to create object"
                            ELSE "failed to update object"

C10_Witness ==
    \E p \in Procs :
        /\ call[p].op \in {CFT, COU}
        /\ call[p].pc = "done"
        /\ Last(call[p].calls) = [c |-> "create", r |-> "exists"]
        /\ call[p].res.cause = "exists"

\* p is in, or has just returned from, an UpdateStatus whose first fetch
\* succeeded and whose callback is absent or succeeded
StatusReached(p) ==
    /\ call[p].op \in {US, USR}
    /\ call[p].pc \in {"reget", "done"}
    /\ call[p].calls[1] = GetOk
    /\ ~call[p].f.fails

\* C11: an UpdateStatus whose fetch succeeded and whose callback is absent or
\* succeeded issues exactly one status write, whatever the callback changed
\* and whatever fingerprint is stored, and no create or update; an applied
\* status write carries the status the callback left and changes neither the
\* content nor the annotations of the resource.
C11_StatusAlwaysWritten ==
    \A p \in Procs :
        /\ (call[p].op \in {US, USR} /\ call[p].pc = "status") =>
                call[p].calls = <<GetOk>>
        /\ StatusReached(p) =>
                /\ Len(call[p].calls) >= 2
                /\ call[p].calls[2].c = "status"
                /\ NumCalls(call[p].calls, {"status"}) = 1
                /\ NumCalls(call[p].calls, {"create", "update"}) = 0
                /\ call[p].written # None =>
                        /\ call[p].written.status =
                                Mutate(call[p].f, call[p].first, "status").status
                        /\ call[p].written.spec = call[p].overwrote.spec
                        /\ call[p].written.ann = call[p].overwrote.ann

\* an applied status write by a nil callback, nothing changed, on a resource
\* carrying a fingerprint
C11_Witness ==
    /\ \E p \in Procs :
            /\ StatusReached(p)
            /\ call[p].f.nil
            /\ call[p].written # None
            /\ call[p].written.status = call[p].overwrote.status
            /\ GetHash(call[p].overwrote) # <<>>

\* the one fetch of the Resolve reported not-found
FetchNotFound ==
    /\ rres # None
    /\ Len(rres.gets) = 1
    /\ rres.gets[1].err = StatusError("NotFound")

\* C12: the error Resolve returns is retryable exactly when the fetch of the
\* target reported not-found; the error of every other failure (parent kind
\* not registered, parent without metadata, another fetch error, a decode
\* error) is not retryable.
C12_RetryableIffNotFound ==
    rres # None =>
        /\ IsRetryable(rres.err) <=> FetchNotFound
        /\ FetchNotFound => rres.out = None
        /\ (rres.err # NilErr /\ ~FetchNotFound) =>
                /\ rres.err.type \in {"wrapError", "errorString"}
                /\ ~IsRetryable(rres.err)

C12_Witness ==
    /\ rres # None
    /\ rres.op = "ObjectReference"
    /\ FetchNotFound
    /\ IsRetryable(rres.err)

\* the fetch of a Resolve by ObjectReference or LocalObjectReference found
\* the target
FetchedTarget ==
    /\ rres # None
    /\ rres.op \in {"ObjectReference", "LocalObjectReference"}
    /\ Len(rres.gets) = 1
    /\ rres.gets[1].err = NilErr

\* the stored resource a fetch asked for
Target(get) ==
    CHOOSE o \in objects :
        /\ GVK(o.apiVersion, o.kind) = get.gvk
        /\ o.namespace = get.namespace
        /\ o.name = get.name

\* the kind fetched is registered in the scheme
Registered(get) == \E i \in 1..Len(scheme) : scheme[i] = get.gvk

\* C13 as stated: when the target exists Resolve returns without error, the
\* concrete type when the kind is registered and the generic representation
\* when it is not.
C13_Fallback_Original ==
    FetchedTarget =>
        /\ rres.err = NilErr
        /\ rres.out # None
        /\ rres.out.repr = IF Registered(rres.gets[1]) THEN "typed" ELSE "unstructured"

\* C13 amended: when the fetch finds the target, Resolve returns the generic
\* representation without error when the kind is not registered, the concrete
\* type without error when the kind is registered and the fetched content
\* decodes into it, and a non-retryable decode error and no object when the
\* kind is registered and the content does not decode.
C13_Fallback ==
    FetchedTarget =>
        LET get == rres.gets[1]
        IN  /\ ~Registered(get) =>
                    /\ rres.err = NilErr
                    /\ rres.out = [repr |-> "unstructured", u |-> Target(get)]
            /\ (Registered(get) /\ Target(get).decodable) =>
                    /\ rres.err = NilErr
                    /\ rres.out = [repr |-> "typed", u |-> Target(get)]
            /\ (Registered(get) /\ ~Target(get).decodable) =>
                    /\ rres.out = None
                    /\ rres.err.type = "wrapError"
                    /\ rres.err.msg[1] = "failed to decode unstructured object"
                    /\ ~IsRetryable(rres.err)

C13_Witness ==
    /\ FetchedTarget
    /\ ~Registered(rres.gets[1])
    /\ rres.err = NilErr
    /\ rres.out.repr = "unstructured"

\* the namespace and apiVersion a Resolve of reference r under the parent
\* and scheme of the state is to fetch with
WantedNamespace(r) ==
    IF r.type = "ObjectReference" /\ r.namespace # "" THEN r.namespace
    ELSE parent.namespace
WantedAPIVersion(r) ==
    IF r.type \in {"LocalSecretReference", "LocalConfigMapReference"} THEN "v1"
    ELSE IF r.apiVersion # "" THEN r.apiVersion
    ELSE ObjectKinds(scheme, parent).gvks[1].apiVersion
WantedKind(r) ==
    IF r.type = "LocalSecretReference" THEN "Secret"
    ELSE IF r.type = "LocalConfigMapReference" THEN "ConfigMap"
    ELSE r.kind

\* C14: every fetch Resolve issues asks for the reference's name and kind, in
\* the reference's namespace when it names one and the parent's otherwise,
\* with the reference's apiVersion when it names one and the first apiVersion
\* registered for the parent's type otherwise; the three same-namespace
\* types always fetch from the parent's namespace.
C14_Defaulting ==
    (rres # None /\ rres.gets # <<>>) =>
        /\ Len(rres.gets) = 1
        /\ rres.gets[1].name = rres.ref.name
        /\ rres.gets[1].namespace = WantedNamespace(rres.ref)
        /\ rres.gets[1].gvk = GVK(WantedAPIVersion(rres.ref), WantedKind(rres.ref))
        /\ rres.op # "ObjectReference" => rres.gets[1].namespace = parent.namespace

\* both fields defaulted, from a parent in another namespace whose type is
\* registered under two apiVersions, and the target found
C14_Witness ==
    /\ rres # None
    /\ rres.op = "ObjectReference"
    /\ rres.ref.namespace = "" /\ rres.ref.apiVersion = ""
    /\ rres.gets # <<>>
    /\ rres.gets[1].namespace = "other"
    /\ rres.gets[1].gvk.apiVersion = "v1"
    /\ Len(ObjectKinds(scheme, parent).gvks) = 2
    /\ rres.err = NilErr

\* C15: Retryable(e) is retryable and keeps e's message and cause chain, e
\* being reachable as the cause of the wrapped error; an error that Retryable
\* did not produce is not retryable, whatever its kind.
C15_RetryableTag ==
    /\ errv.by = "Retryable" =>
            /\ IsRetryable(errv.e)
            /\ ErrorMsg(errv.e) = ErrorMsg(errv.e.error)
            /\ Unwrap(errv.e) = errv.e.error
            /\ ErrorsIs(errv.e, errv.e.error)
    /\ errv.by # "Retryable" => ~IsRetryable(errv.e)

\* C16: no step of Resolve or of its three specializations changes the
\* resources in the store, the parent or the reference value, and the only
\* store call a Resolve issues is at most one fetch, whether it succeeds,
\* fails or panics.
C16_ResolveReadOnly ==
    [][ /\ objects' = objects
        /\ parent' = parent
        /\ ref' = ref
        /\ scheme' = scheme
        /\ rres' # None =>
                /\ Len(rres'.gets) <= 1
                /\ rres'.ref = ref ]_vars

\* a Resolve that defaulted both fields has returned and the reference still
\* has them unset
C16_Witness ==
    /\ rres # None
    /\ rres.op = "ObjectReference"
    /\ rres.gets # <<>>
    /\ rres.gets[1].namespace # "" /\ rres.gets[1].gvk.apiVersion # ""
    /\ ref = rres.ref
    /\ ref.namespace = "" /\ ref.apiVersion = ""

\* the position of the successful write among the store calls cs, 0 if none
AppliedAt(cs) ==
    IF \E i \in 1..Len(cs) : cs[i].c \in WriteCalls /\ cs[i].r = "ok"
    THEN CHOOSE i \in 1..Len(cs) : cs[i].c \in WriteCalls /\ cs[i].r = "ok"
    ELSE 0

\* the invocation returned after cs ends with one re-fetch after the write at
\* position i, not-found swallowed and any other error returned
RefetchedOnce(c, i) ==
    /\ Len(c.calls) = i + 1
    /\ c.calls[i + 1].c = "get"
    /\ c.calls[i + 1].r \in {"ok", "notfound"} => c.res.ok
    /\ c.calls[i + 1].r = "err" => (~c.res.ok /\ c.res.cause = "err")

\* the paths that return straight after their write: the create of
\* CreateOrUpdate and the UpdateStatus that has no re-fetch
ReturnsAfterWrite(c, i) ==
    \/ c.op = COU /\ c.calls[i].c = "create"
    \/ c.op = US

CallbackFails(p) ==
    /\ call[p].op \in {COU, US, USR}
    /\ call[p].pc # "returned"
    /\ call[p].f.fails
    /\ call[p].calls[1].r # "err"
    /\ call[p].op \in {US, USR} => call[p].calls[1].r = "ok"

\* C18: when the callback of CreateOrUpdate (object found or newly
\* initialised) or of UpdateStatus fails, the operation returns an error
\* wrapping the callback's, having issued the fetch and no other store call,
\* run the callback once, and left the store as it was.
C18_CallbackShortCircuits ==
    \A p \in Procs :
        CallbackFails(p) =>
            /\ call[p].pc = "done"
            /\ Len(call[p].calls) = 1
            /\ NumWrites(call[p].calls) = 0
            /\ ~call[p].res.ok
            /\ call[p].res.msg = "failed to mutate object"
            /\ call[p].res.cause = "callback"
            /\ call[p].muts = 1
            /\ call[p].written = None

\* the callback failed on a newly initialised object, the key absent
C18_Witness ==
    \E p \in Procs :
        /\ CallbackFails(p)
        /\ call[p].op = COU
        /\ call[p].calls = <<[c |-> "get", r |-> "notfound"]>>
        /\ live = None

\* the invocation returned the error of its first fetch, having run no
\* callback and issued no other store call
FetchErrorReturned(c) ==
    /\ c.pc = "done"
    /\ Len(c.calls) = 1
    /\ ~c.res.ok
    /\ c.res.msg = "failed to get object"
    /\ c.res.cause = c.calls[1].r
    /\ c.muts = 0
    /\ c.written = None

\* C19: UpdateStatus returns the error of its first fetch, not-found
\* included, without callback or write; CreateOrUpdateFromTemplate and
\* CreateOrUpdate do so for every fetch error but not-found, and after
\* not-found the only write they issue is a create, after a successful fetch
\* never a create.
C19_InitialFetchErrors ==
    \A p \in Procs :
        (call[p].calls # <<>> /\ call[p].pc # "returned") =>
            /\ (call[p].op \in {US, USR} /\ call[p].calls[1].r # "ok") =>
                    FetchErrorReturned(call[p])
            /\ (call[p].op \in {CFT, COU} /\ call[p].calls[1].r = "err") =>
                    FetchErrorReturned(call[p])
            /\ (call[p].op \in {CFT, COU} /\ call[p].calls[1].r = "notfound") =>
                    /\ (call[p].pc = "done" /\ Len(call[p].calls) = 1) =>
                            call[p].res.msg = "failed to mutate object"
                    /\ NumCalls(call[p].calls, {"update", "status"}) = 0
                    /\ call[p].pc \notin {"update", "status"}
                    /\ (call[p].pc # "done" /\ Len(call[p].calls) = 1) =>
                            call[p].pc = "create"
            /\ (call[p].op \in {CFT, COU} /\ call[p].calls[1].r = "ok") =>
                    /\ NumCalls(call[p].calls, {"create"}) = 0
                    /\ call[p].pc # "create"

\* UpdateStatus on an absent key
C19_Witness ==
    \E p \in Procs :
        /\ call[p].op \in {US, USR}
        /\ call[p].calls = <<[c |-> "get", r |-> "notfound"]>>
        /\ FetchErrorReturned(call[p])
        /\ ~call[p].f.nil

\* p's CreateOrUpdate has fetched with result r and its callback, if any,
\* has succeeded
Proceeds(p, r) ==
    /\ call[p].op = COU
    /\ call[p].pc # "returned"
    /\ call[p].calls # <<>>
    /\ call[p].calls[1].r = r
    /\ ~call[p].f.fails

\* C20: after not-found CreateOrUpdate submits the blank object stamped with
\* the key and then mutated by the callback, and its single write is a
\* create; after a successful fetch it submits the fetched object mutated by
\* the callback, and its single write is an update.
C20_FetchOrInitialize ==
    \A p \in Procs :
        /\ Proceeds(p, "notfound") =>
                /\ call[p].pc \in {"create", "done"}
                /\ call[p].pc = "create" =>
                        /\ call[p].obj.name = Key
                        /\ call[p].obj = Mutate(call[p].f, SetName(Blank, Key), "spec")
                /\ call[p].pc = "done" =>
                        /\ Len(call[p].calls) = 2
                        /\ call[p].calls[2].c = "create"
                /\ call[p].written # None =>
                        /\ call[p].written.name = Key
                        /\ call[p].written.spec = call[p].f.val
                /\ NumCalls(call[p].calls, {"update"}) = 0
        /\ Proceeds(p, "ok") =>
                /\ call[p].pc \in {"update", "reget", "done"}
                /\ call[p].pc = "update" =>
                        call[p].obj = Mutate(call[p].f, call[p].first, "spec")
                /\ call[p].pc \in {"reget", "done"} =>
                        /\ call[p].calls[2].c = "update"
                        /\ NumWrites(call[p].calls) = 1
                /\ call[p].written # None =>
                        call[p].written.spec =
                            Mutate(call[p].f, call[p].first, "spec").spec
                /\ NumCalls(call[p].calls, {"create"}) = 0

\* an object created by CreateOrUpdate under the key with the callback's
\* content
C20_Witness ==
    \E p \in Procs :
        /\ Proceeds(p, "notfound")
        /\ call[p].pc = "done"
        /\ call[p].res.ok
        /\ ~call[p].f.nil
        /\ call[p].written = live
        /\ live.name = Key

\* C21: the store calls of every invocation of the three operations are a
\* read, then at most one write, then at most one re-read: at most three
\* calls, at most one write, and a re-read only after a write that succeeded.
C21_BoundedRoundTrips ==
    \A p \in Procs :
        LET cs == call[p].calls
        IN  /\ Len(cs) <= 3
            /\ NumWrites(cs) <= 1
            /\ Len(cs) >= 1 => cs[1].c = "get"
            /\ Len(cs) >= 2 => (cs[1].r # "err" /\ cs[2].c \in WriteCalls)
            /\ Len(cs) = 3 => (cs[2].r = "ok" /\ cs[3].c = "get")
            /\ call[p].pc \in {"create", "update", "status"} => Len(cs) = 1
            /\ call[p].pc = "reget" => (Len(cs) = 2 /\ cs[2].r = "ok")

\* an UpdateStatus that made all three calls
C21_Witness ==
    \E p \in Procs :
        /\ call[p].op = USR
        /\ call[p].pc = "done"
        /\ Len(call[p].calls) = 3
        /\ call[p].calls[2] = [c |-> "status", r |-> "ok"]
        /\ call[p].calls[3].c = "get"

\* C22: at every point of a CreateOrUpdateFromTemplate, on the create, update,
\* no-op and error paths alike, the caller's template is the template that
\* was passed in: same annotations, same fingerprint, the one computed at
\* entry.
C22_TemplateImmutable ==
    \A p \in Procs :
        (call[p].op = CFT /\ call[p].pc # "returned") =>
            /\ call[p].tnow = call[p].tmpl
            /\ GetHash(call[p].tnow) = GetHash(call[p].tmpl)
            /\ HashObject(call[p].tnow) = call[p].hash

\* the update path has stamped and written the working object and the
\* template carries no annotation
C22_Witness ==
    \E p \in Procs :
        /\ call[p].op = CFT
        /\ call[p].pc = "done"
        /\ Len(call[p].calls) >= 2
        /\ call[p].calls[2] = [c |-> "update", r |-> "ok"]
        /\ GetHash(call[p].written) = call[p].hash
        /\ GetHash(call[p].tnow) = <<>>

\* C23: LocalSecretReference.Resolve and LocalConfigMapReference.Resolve never
\* abort: they return an object of the expected concrete type or an error,
\* also when the target exists and its kind is not registered.
C23_SpecializationsNeverAbort ==
    (rres # None /\ rres.op \in {"LocalSecretReference", "LocalConfigMapReference"}) =>
        /\ ~rres.panic
        /\ \/ rres.err # NilErr
           \/ /\ rres.out # None
              /\ rres.out.repr = "typed"
              /\ rres.out.u.kind =
                    IF rres.op = "LocalSecretReference" THEN "Secret" ELSE "ConfigMap"

\* e is an error made by Retryable, or has one on its cause chain
RECURSIVE HasRetryableCause(_)
HasRetryableCause(e) ==
    \/ e.type = "retryableError"
    \/ Unwrap(e) # NilErr /\ HasRetryableCause(Unwrap(e))

\* C24: an error that keeps an error made by Retryable as its cause, at any
\* depth of the cause chain, is retryable.
C24_TagSurvivesContext ==
    HasRetryableCause(errv.e) => IsRetryable(errv.e)

\* the live object carries the fingerprint of the loop's template.  It need
\* not stay so: after a call returned nil another writer may delete the key,
\* and a loop that calls again only after errors then leaves it absent; the
\* loop sends no write from then on either.
FingerprintReached == live # None /\ GetHash(live) = RequeueHash

\* the loop's call in progress has a Create or an Update to send
WritePending == call[Looper].pc \in {"create", "update"}

\* C25: a loop that calls CreateOrUpdateFromTemplate with one template T, and
\* again after every error, against a store that answers and other writers
\* that write finitely often, eventually reaches a state where the live
\* object's stored fingerprint is HashObject(T) and from which on no call of
\* the loop sends a write.
C25_ConvergenceUnderRequeue == <>(FingerprintReached /\ [](~WritePending))

\* the budget of the other writers and of the store's failures is spent, the
\* loop's previous call returned nil, and its next call found the fingerprint
\* of T and returned nil after its one read
C25_Witness ==
    /\ disturbs = MaxDisturb
    /\ FingerprintReached
    /\ prev[Looper] # None
    /\ call[Looper].pc = "done"
    /\ call[Looper].res.ok
    /\ call[Looper].calls = <<GetOk>>

\* the list the embedded LogSink is given differs from the arguments only
\* where a value position held a klog.ObjectRef, which became its String()
OnlyObjectRefsReplaced(kv, out) ==
    /\ Len(out) = Len(kv)
    /\ \A j \in 1..Len(kv) :
            IF j % 2 = 0 /\ kv[j].type = "klog.ObjectRef"
            THEN out[j] = ObjectRefString(kv[j])
            ELSE out[j] = kv[j]

\* C26: for every keysAndValues list, of even, odd or zero length, given to
\* Info, Error or WithValues, replaceObjectRef reads only indices below the
\* length of the list, returns a list of the same length, and changes only
\* the value positions that hold a klog.ObjectRef.
C26_ScanStaysInBounds ==
    sink # None =>
        /\ ~sink.panic
        /\ \A j \in sink.reads : j < Len(keysAndValues)
        /\ OnlyObjectRefsReplaced(keysAndValues, sink.passed)

====
